---- MODULE Spec2Model ----
(***************************************************************************)
(* Model of the provisioning workflow of src/src/App.tsx: the React state  *)
(* of App (prompt, agentName, apiKey, step, error, result), the async      *)
(* handler handleSubmit with its three awaited remote calls, and the pure  *)
(* step-status derivation getStepStatus.                                   *)
(*                                                                         *)
(* Text is a sequence of tokens (<<>> is the empty string), so that        *)
(* trimming, the `||` fallbacks and template strings are computed, not     *)
(* assumed.  A nullable value is a set with at most one element: None is   *)
(* null, Some(v) is v.  The statements a handler runs between two awaits   *)
(* are one action: React commits the state updates of one synchronous      *)
(* stretch together, and JavaScript runs it to completion.                 *)
(***************************************************************************)
EXTENDS Integers, Sequences, FiniteSets, TLC

VARIABLES
    prompt,     \* useState('')  App.tsx:14, the description field
    agentName,  \* useState('')  App.tsx:15, the optional display name
    apiKey,     \* useState('')  App.tsx:16, the credential
    step,       \* useState<Step>('idle') App.tsx:17
    error,      \* useState<string | null>(null) App.tsx:18
    result,     \* useState<AgentResult | null>(null) App.tsx:19
    flows,      \* the invocations of handleSubmit suspended at an await
    network,    \* the fetch calls issued and not yet consumed by their caller
    calls       \* history: every remote call ever issued, and how it ended

vars == <<prompt, agentName, apiKey, step, error, result, flows, network, calls>>

\* The number of valid submits a behaviour may make.
MaxAttempts == 2

---------------------------------------------------------------------------
\* Nullable values.
None == {}
Some(v) == {v}
Get(o) == CHOOSE v \in o : TRUE

\* type Step, App.tsx:4.
Steps == {"idle", "creating-assistant", "purchasing-number", "associating",
          "complete", "error"}
InProgress == {"creating-assistant", "purchasing-number", "associating"}

\* An identifier a response may carry; Undefined is JavaScript's undefined,
\* the value of a field the parsed body does not have.
Undefined == [kind |-> "undefined", n |-> 0]
Id(k, i) == [kind |-> k, n |-> i]

---------------------------------------------------------------------------
\* Text.

Whitespace == {" "}

\* String.prototype.trim: strips leading and trailing whitespace.
RECURSIVE TrimStart(_)
TrimStart(s) ==
    IF s # <<>> /\ Head(s) \in Whitespace THEN TrimStart(Tail(s)) ELSE s

RECURSIVE TrimEnd(_)
TrimEnd(s) ==
    IF s # <<>> /\ s[Len(s)] \in Whitespace
    THEN TrimEnd(SubSeq(s, 1, Len(s) - 1))
    ELSE s

Trim(s) == TrimEnd(TrimStart(s))

\* `a || b` on strings: the empty string is falsy.
OrElse(a, b) == IF a # <<>> THEN a ELSE b

\* What the user can type into the three fields.
PromptValues == {<<>>, <<" ">>, <<"d">>, <<" ", "d">>}
AgentNameValues == {<<>>, <<"Coffee Bot">>}
ApiKeyValues == {<<>>, <<" ">>, <<"sk_test_123">>}

\* The form fields as the handler's closure sees them: handleSubmit and the
\* three call functions of one render read the same prompt, agentName, apiKey.
Closure == [prompt |-> prompt, agentName |-> agentName, apiKey |-> apiKey]

---------------------------------------------------------------------------
\* The remote calls: what is sent.

\* generateSystemPrompt, App.tsx:21-32.
generateSystemPrompt(description) ==
    <<"You are an AI assistant created with the following purpose and behavior:">>
        \o description \o <<"Guidelines:">>

\* The fields of a request that a call does not send are empty.
NoRequestFields ==
    [name |-> <<>>, content |-> <<>>, firstMessage |-> <<>>, areaCode |-> <<>>,
     pathId |-> Undefined, assistantId |-> Undefined]

\* createAssistant's request without the `|| 'VAPI Agent'` fallback of the name.
CreateAssistantRequestNoFallback(c) ==
    [NoRequestFields EXCEPT
        !.name = c.agentName,
        !.content = generateSystemPrompt(c.prompt),
        !.firstMessage = <<"Hello! I'm ">>
                            \o OrElse(c.agentName, <<"your AI assistant">>)
                            \o <<". How can I help you today?">>]

\* createAssistant's fetch, App.tsx:35-59.
CreateAssistantRequest(c) ==
    [NoRequestFields EXCEPT
        !.name = OrElse(c.agentName, <<"VAPI Agent">>),
        !.content = generateSystemPrompt(c.prompt),
        !.firstMessage = <<"Hello! I'm ">>
                            \o OrElse(c.agentName, <<"your AI assistant">>)
                            \o <<". How can I help you today?">>]

\* purchasePhoneNumber's fetch, App.tsx:72-82.
PurchasePhoneNumberRequest(c) ==
    [NoRequestFields EXCEPT
        !.areaCode = <<"415">>,
        !.name = OrElse(c.agentName, <<"VAPI Agent Number">>)]

\* associatePhoneNumber's fetch, App.tsx:94-103.
AssociatePhoneNumberRequest(phoneNumberId, assistantId) ==
    [NoRequestFields EXCEPT !.pathId = phoneNumberId, !.assistantId = assistantId]

\* A fetch in flight: who awaits it, the operation, the bearer token, the
\* request, and the response once it has arrived.
Pending == [kind |-> "pending", status |-> 0,
            body |-> [parse |-> "bad", message |-> None,
                      id |-> Undefined, number |-> Undefined]]

Fetch(attempt, op, c, request) ==
    [attempt |-> attempt, op |-> op, auth |-> <<"Bearer ">> \o c.apiKey,
     request |-> request, resp |-> Pending]

---------------------------------------------------------------------------
\* The remote calls: what can come back.

BadBody == [parse |-> "bad", message |-> None, id |-> Undefined, number |-> Undefined]
NullBody == [parse |-> "null", message |-> None, id |-> Undefined, number |-> Undefined]
Object(m, i, n) == [parse |-> "object", message |-> m, id |-> i, number |-> n]

ServerMessages == {<<"quota exceeded">>}
FailureStatuses == {401, 500}
SuccessStatuses == {200}

\* The bodies of a non-2xx response: unparseable, JSON null, an object without
\* a message, with an empty one, with a readable one.
ErrorBodies ==
    {BadBody, NullBody, Object(None, Undefined, Undefined),
     Object(Some(<<>>), Undefined, Undefined)}
    \cup {Object(Some(m), Undefined, Undefined) : m \in ServerMessages}

\* The bodies of a 2xx response to `op` when the server's next identifiers are
\* numbered k: the documented object, objects lacking a field, JSON null, and
\* a body that is not JSON.
SuccessBodies(op, k) ==
    CASE op = "create-assistant" ->
            {BadBody, NullBody, Object(None, Id("assistant", k), Undefined),
             Object(None, Undefined, Undefined)}
      [] op = "purchase-number" ->
            {BadBody, NullBody,
             Object(None, Id("phone", k), Id("number", k)),
             Object(None, Undefined, Id("number", k)),
             Object(None, Id("phone", k), Undefined)}
      [] OTHER -> {BadBody, Object(None, Undefined, Undefined)}

Rejected == [kind |-> "rejected", status |-> 0, body |-> BadBody]
Http(s, b) == [kind |-> "http", status |-> s, body |-> b]

Responses(op, k) ==
    {Rejected}
    \cup {Http(s, b) : s \in FailureStatuses, b \in ErrorBodies}
    \cup {Http(s, b) : s \in SuccessStatuses, b \in SuccessBodies(op, k)}

\* Response.ok.
Ok(resp) == resp.status >= 200 /\ resp.status <= 299

---------------------------------------------------------------------------
\* The remote calls: what the caller makes of the response.

\* The outcome of an awaited call: it returns values or throws.
Return(i, n) == [threw |-> FALSE, isError |-> FALSE, message |-> <<>>,
                 id |-> i, number |-> n]
Throw(m) == [threw |-> TRUE, isError |-> TRUE, message |-> m,
             id |-> Undefined, number |-> Undefined]

\* The messages of the errors the runtime itself throws.
FetchFailed == <<"Failed to fetch">>
JsonSyntaxError == <<"Unexpected token in JSON">>
NullProperty(field) == <<"Cannot read properties of null (reading '", field, "')">>

\* The error branch without the `.catch(() => ({}))` on response.json().
ThrowHttpErrorUncaughtParse(resp, prefix) ==
    IF resp.body.parse = "bad" THEN Throw(JsonSyntaxError)
    ELSE IF resp.body.parse = "null" THEN Throw(NullProperty("message"))
    ELSE IF resp.body.message # None /\ Get(resp.body.message) # <<>>
    THEN Throw(Get(resp.body.message))
    ELSE Throw(prefix \o <<ToString(resp.status)>>)

\* `if (!response.ok) { errorData = await response.json().catch(() => ({}));
\*  throw new Error(errorData.message || `<prefix>${response.status}`) }`
\* App.tsx:61-64, 84-87, 105-108.
ThrowHttpError(resp, prefix) ==
    LET errorData == IF resp.body.parse = "bad"
                     THEN Object(None, Undefined, Undefined)
                     ELSE resp.body
    IN  IF errorData.parse = "null" THEN Throw(NullProperty("message"))
        ELSE IF errorData.message # None /\ Get(errorData.message) # <<>>
        THEN Throw(Get(errorData.message))
        ELSE Throw(prefix \o <<ToString(resp.status)>>)

\* `const data = await response.json()`, App.tsx:66, 89.
ParsedOrThrow(resp, field, value) ==
    IF resp.body.parse = "bad" THEN Throw(JsonSyntaxError)
    ELSE IF resp.body.parse = "null" THEN Throw(NullProperty(field))
    ELSE value

\* createAssistant after its fetch settles, App.tsx:61-67.
createAssistant(resp) ==
    IF resp.kind = "rejected" THEN Throw(FetchFailed)
    ELSE IF ~Ok(resp) THEN ThrowHttpError(resp, <<"Failed to create assistant: ">>)
    ELSE ParsedOrThrow(resp, "id", Return(resp.body.id, Undefined))

\* purchasePhoneNumber without its `if (!searchResponse.ok)` block.
purchasePhoneNumberUnchecked(resp) ==
    IF resp.kind = "rejected" THEN Throw(FetchFailed)
    ELSE ParsedOrThrow(resp, "id", Return(resp.body.id, resp.body.number))

\* purchasePhoneNumber after its fetch settles, App.tsx:84-90.
purchasePhoneNumber(resp) ==
    IF resp.kind = "rejected" THEN Throw(FetchFailed)
    ELSE IF ~Ok(resp)
    THEN ThrowHttpError(resp, <<"Failed to purchase phone number: ">>)
    ELSE ParsedOrThrow(resp, "id", Return(resp.body.id, resp.body.number))

\* associatePhoneNumber without its `if (!response.ok)` block.
associatePhoneNumberUnchecked(resp) ==
    IF resp.kind = "rejected" THEN Throw(FetchFailed)
    ELSE Return(Undefined, Undefined)

\* associatePhoneNumber after its fetch settles, App.tsx:105-109.
associatePhoneNumber(resp) ==
    IF resp.kind = "rejected" THEN Throw(FetchFailed)
    ELSE IF ~Ok(resp)
    THEN ThrowHttpError(resp, <<"Failed to associate phone number: ">>)
    ELSE Return(Undefined, Undefined)

---------------------------------------------------------------------------
\* The history of remote calls.

\* A call as the history keeps it: the attempt that issued it, the identifiers
\* it was given, whether the server answered 2xx, and whether the calling
\* function returned (with which values) or threw.
Issued(attempt, op, request) ==
    [attempt |-> attempt, op |-> op,
     pathId |-> request.pathId, assistantId |-> request.assistantId,
     http |-> "pending", outcome |-> "pending",
     id |-> Undefined, number |-> Undefined]

IndexOfCall(attempt, op) ==
    CHOOSE i \in DOMAIN calls : calls[i].attempt = attempt /\ calls[i].op = op

\* The history once the server has answered the call of `f`.
Answered(f, resp) ==
    [calls EXCEPT ![IndexOfCall(f.attempt, f.op)].http =
        IF resp.kind = "http" /\ Ok(resp) THEN "2xx" ELSE "failed"]

\* The history once the calling function has returned or thrown.
Settled(f, o) ==
    [calls EXCEPT ![IndexOfCall(f.attempt, f.op)] =
        [@ EXCEPT !.outcome = IF o.threw THEN "threw" ELSE "returned",
                  !.id = o.id, !.number = o.number]]

\* The number of attempts (valid submits) so far.
NumAttempts == Cardinality({calls[i].attempt : i \in DOMAIN calls})

\* The server numbers the resources of each kind as it creates them.
NextResource(op) ==
    1 + Cardinality({i \in DOMAIN calls : calls[i].op = op /\ calls[i].http = "2xx"})

---------------------------------------------------------------------------
\* The state machine.

Init ==
    /\ prompt = <<>>
    /\ agentName = <<>>
    /\ apiKey = <<>>
    /\ step = "idle"
    /\ error = None
    /\ result = None
    /\ flows = {}
    /\ network = {}
    /\ calls = <<>>

\* Inputs that are never disabled.
InputAlwaysEnabled == TRUE

\* disabled={step !== 'idle' && step !== 'error'} on the three inputs,
\* App.tsx:197, 212, 226.
InputEnabled == step = "idle" \/ step = "error"

\* A button disabled only while a call is running, and one never disabled.
SubmitEnabledWhenNotBusy == step \notin InProgress
SubmitAlwaysEnabled == TRUE

\* disabled={step !== 'idle' && step !== 'error'} on the submit button,
\* App.tsx:233; with every input disabled too, the form cannot be submitted.
SubmitEnabled == step = "idle" \/ step = "error"

\* onChange of the description textarea, App.tsx:224.
SetPrompt(v) ==
    /\ InputEnabled
    /\ prompt' = v
    /\ UNCHANGED <<agentName, apiKey, step, error, result, flows, network, calls>>

\* onChange of the name input, App.tsx:210.
SetAgentName(v) ==
    /\ InputEnabled
    /\ agentName' = v
    /\ UNCHANGED <<prompt, apiKey, step, error, result, flows, network, calls>>

\* onChange of the key input, App.tsx:195.
SetApiKey(v) ==
    /\ InputEnabled
    /\ apiKey' = v
    /\ UNCHANGED <<prompt, agentName, step, error, result, flows, network, calls>>

\* The check without the trimming: `!prompt || !apiKey`.
MissingRequiredUntrimmed(c) == c.prompt = <<>> \/ c.apiKey = <<>>

\* `!prompt.trim() || !apiKey.trim()`, App.tsx:133.
MissingRequired(c) == Trim(c.prompt) = <<>> \/ Trim(c.apiKey) = <<>>

RequiredFieldsMessage == <<"Please fill in all required fields">>
UnexpectedErrorMessage == <<"An unexpected error occurred">>

\* The locals of one invocation of handleSubmit suspended at an await.
Flow(attempt, pc, c, assistantId, phoneNumberId, phoneNumber) ==
    [attempt |-> attempt, pc |-> pc, c |-> c, assistantId |-> assistantId,
     phoneNumberId |-> phoneNumberId, phoneNumber |-> phoneNumber]

\* A handleSubmit that resumes: submitted from error after an attempt whose
\* assistant was created, it skips create-assistant and reuses that assistant.
HandleSubmitResuming ==
    /\ SubmitEnabled
    /\ LET c == Closure
           a == NumAttempts + 1
           created == {i \in DOMAIN calls :
                            /\ calls[i].attempt = NumAttempts
                            /\ calls[i].op = "create-assistant"
                            /\ calls[i].outcome = "returned"}
       IN  IF MissingRequired(c)
           THEN /\ error' = Some(RequiredFieldsMessage)
                /\ UNCHANGED <<step, result, flows, network, calls>>
           ELSE /\ NumAttempts < MaxAttempts
                /\ error' = None
                /\ result' = None
                /\ IF step = "error" /\ created # {}
                   THEN LET request == PurchasePhoneNumberRequest(c)
                            prior == calls[CHOOSE i \in created : TRUE].id
                        IN  /\ step' = "purchasing-number"
                            /\ flows' = flows \cup
                                  {Flow(a, "purchasePhoneNumber", c, prior,
                                        Undefined, Undefined)}
                            /\ network' = network \cup
                                  {Fetch(a, "purchase-number", c, request)}
                            /\ calls' = Append(calls,
                                  Issued(a, "purchase-number", request))
                   ELSE LET request == CreateAssistantRequest(c)
                        IN  /\ step' = "creating-assistant"
                            /\ flows' = flows \cup
                                  {Flow(a, "createAssistant", c, Undefined,
                                        Undefined, Undefined)}
                            /\ network' = network \cup
                                  {Fetch(a, "create-assistant", c, request)}
                            /\ calls' = Append(calls,
                                  Issued(a, "create-assistant", request))
    /\ UNCHANGED <<prompt, agentName, apiKey>>

\* A handleSubmit without its `setError(null)`.
HandleSubmitKeepsError ==
    /\ SubmitEnabled
    /\ LET c == Closure
           a == NumAttempts + 1
           request == CreateAssistantRequest(c)
       IN  IF MissingRequired(c)
           THEN /\ error' = Some(RequiredFieldsMessage)
                /\ UNCHANGED <<step, result, flows, network, calls>>
           ELSE /\ NumAttempts < MaxAttempts
                /\ error' = error
                /\ result' = None
                /\ step' = "creating-assistant"
                /\ flows' = flows \cup
                      {Flow(a, "createAssistant", c, Undefined, Undefined, Undefined)}
                /\ network' = network \cup {Fetch(a, "create-assistant", c, request)}
                /\ calls' = Append(calls, Issued(a, "create-assistant", request))
    /\ UNCHANGED <<prompt, agentName, apiKey>>

\* A handleSubmit whose failed validation also calls `setStep('error')`.
HandleSubmitValidationSetsStep ==
    /\ SubmitEnabled
    /\ LET c == Closure
           a == NumAttempts + 1
           request == CreateAssistantRequest(c)
       IN  IF MissingRequired(c)
           THEN /\ error' = Some(RequiredFieldsMessage)
                /\ step' = "error"
                /\ UNCHANGED <<result, flows, network, calls>>
           ELSE /\ NumAttempts < MaxAttempts
                /\ error' = None
                /\ result' = None
                /\ step' = "creating-assistant"
                /\ flows' = flows \cup
                      {Flow(a, "createAssistant", c, Undefined, Undefined, Undefined)}
                /\ network' = network \cup {Fetch(a, "create-assistant", c, request)}
                /\ calls' = Append(calls, Issued(a, "create-assistant", request))
    /\ UNCHANGED <<prompt, agentName, apiKey>>

\* handleSubmit up to its first await, App.tsx:130-144 and 35-59.
HandleSubmit ==
    /\ SubmitEnabled
    /\ LET c == Closure
           a == NumAttempts + 1
           request == CreateAssistantRequest(c)
       IN  IF MissingRequired(c)
           THEN /\ error' = Some(RequiredFieldsMessage)
                /\ UNCHANGED <<step, result, flows, network, calls>>
           ELSE /\ NumAttempts < MaxAttempts
                /\ error' = None
                /\ result' = None
                /\ step' = "creating-assistant"
                /\ flows' = flows \cup
                      {Flow(a, "createAssistant", c, Undefined, Undefined, Undefined)}
                /\ network' = network \cup {Fetch(a, "create-assistant", c, request)}
                /\ calls' = Append(calls, Issued(a, "create-assistant", request))
    /\ UNCHANGED <<prompt, agentName, apiKey>>

\* The remote platform answers a pending fetch, or the fetch fails.
ServerRespond(f, r) ==
    /\ f \in network
    /\ f.resp = Pending
    /\ r \in Responses(f.op, NextResource(f.op))
    /\ network' = (network \ {f}) \cup {[f EXCEPT !.resp = r]}
    /\ calls' = Answered(f, r)
    /\ UNCHANGED <<prompt, agentName, apiKey, step, error, result, flows>>

\* The settled fetch the flow `w` awaits, if it has settled.
SettledFetch(w, op) ==
    {f \in network : f.attempt = w.attempt /\ f.op = op /\ f.resp # Pending}

\* The catch block showing the generic message whatever was thrown.
CatchAlwaysGeneric(w, f, o) ==
    /\ step' = "error"
    /\ error' = Some(UnexpectedErrorMessage)
    /\ flows' = flows \ {w}
    /\ network' = network \ {f}
    /\ calls' = Settled(f, o)
    /\ UNCHANGED <<prompt, agentName, apiKey, result>>

\* The catch block without its setError.
CatchWithoutSetError(w, f, o) ==
    /\ step' = "error"
    /\ flows' = flows \ {w}
    /\ network' = network \ {f}
    /\ calls' = Settled(f, o)
    /\ UNCHANGED <<prompt, agentName, apiKey, error, result>>

\* The catch block of handleSubmit, App.tsx:162-165: the invocation ends.
Catch(w, f, o) ==
    /\ step' = "error"
    /\ error' = Some(IF o.isError THEN o.message ELSE UnexpectedErrorMessage)
    /\ flows' = flows \ {w}
    /\ network' = network \ {f}
    /\ calls' = Settled(f, o)
    /\ UNCHANGED <<prompt, agentName, apiKey, result>>

\* The same stretch without its `setStep('purchasing-number')`.
ResumeAfterCreateAssistantNoSetStep(w) ==
    /\ w \in flows
    /\ w.pc = "createAssistant"
    /\ \E f \in SettledFetch(w, "create-assistant") :
        LET o == createAssistant(f.resp)
            request == PurchasePhoneNumberRequest(w.c)
        IN  IF o.threw
            THEN Catch(w, f, o)
            ELSE /\ flows' = (flows \ {w}) \cup
                        {Flow(w.attempt, "purchasePhoneNumber", w.c, o.id,
                              Undefined, Undefined)}
                 /\ network' = (network \ {f}) \cup
                        {Fetch(w.attempt, "purchase-number", w.c, request)}
                 /\ calls' = Append(Settled(f, o),
                                    Issued(w.attempt, "purchase-number", request))
                 /\ UNCHANGED <<prompt, agentName, apiKey, step, error, result>>

\* handleSubmit from the first await to the second, App.tsx:144-148 with
\* createAssistant's 61-67 and purchasePhoneNumber's 72-82.
ResumeAfterCreateAssistant(w) ==
    /\ w \in flows
    /\ w.pc = "createAssistant"
    /\ \E f \in SettledFetch(w, "create-assistant") :
        LET o == createAssistant(f.resp)
            request == PurchasePhoneNumberRequest(w.c)
        IN  IF o.threw
            THEN Catch(w, f, o)
            ELSE /\ step' = "purchasing-number"
                 /\ flows' = (flows \ {w}) \cup
                        {Flow(w.attempt, "purchasePhoneNumber", w.c, o.id,
                              Undefined, Undefined)}
                 /\ network' = (network \ {f}) \cup
                        {Fetch(w.attempt, "purchase-number", w.c, request)}
                 /\ calls' = Append(Settled(f, o),
                                    Issued(w.attempt, "purchase-number", request))
                 /\ UNCHANGED <<prompt, agentName, apiKey, error, result>>

\* The two arguments in the wrong order.
AssociateArgumentsSwapped(assistantId, phoneNumberId) ==
    AssociatePhoneNumberRequest(assistantId, phoneNumberId)

\* The arguments handleSubmit gives associatePhoneNumber, App.tsx:152.
AssociateArguments(assistantId, phoneNumberId) ==
    AssociatePhoneNumberRequest(phoneNumberId, assistantId)

\* handleSubmit from the second await to the third, App.tsx:148-152 with
\* purchasePhoneNumber's 84-90 and associatePhoneNumber's 94-103.
ResumeAfterPurchasePhoneNumber(w) ==
    /\ w \in flows
    /\ w.pc = "purchasePhoneNumber"
    /\ \E f \in SettledFetch(w, "purchase-number") :
        LET o == purchasePhoneNumber(f.resp)
            request == AssociateArguments(w.assistantId, o.id)
        IN  IF o.threw
            THEN Catch(w, f, o)
            ELSE /\ step' = "associating"
                 /\ flows' = (flows \ {w}) \cup
                        {Flow(w.attempt, "associatePhoneNumber", w.c, w.assistantId,
                              o.id, o.number)}
                 /\ network' = (network \ {f}) \cup
                        {Fetch(w.attempt, "associate-number", w.c, request)}
                 /\ calls' = Append(Settled(f, o),
                                    Issued(w.attempt, "associate-number", request))
                 /\ UNCHANGED <<prompt, agentName, apiKey, error, result>>

\* The AgentResult without the `|| 'VAPI Agent'` fallback.
AgentResultNoFallback(w) ==
    [assistantId |-> w.assistantId, phoneNumberId |-> w.phoneNumberId,
     phoneNumber |-> w.phoneNumber, agentName |-> w.c.agentName]

\* The AgentResult handleSubmit builds, App.tsx:156-161.
AgentResult(w) ==
    [assistantId |-> w.assistantId, phoneNumberId |-> w.phoneNumberId,
     phoneNumber |-> w.phoneNumber,
     agentName |-> OrElse(w.c.agentName, <<"VAPI Agent">>)]

\* handleSubmit from the third await to its end, App.tsx:152-161 with
\* associatePhoneNumber's 105-109.
ResumeAfterAssociatePhoneNumber(w) ==
    /\ w \in flows
    /\ w.pc = "associatePhoneNumber"
    /\ \E f \in SettledFetch(w, "associate-number") :
        LET o == associatePhoneNumber(f.resp)
        IN  IF o.threw
            THEN Catch(w, f, o)
            ELSE /\ step' = "complete"
                 /\ result' = Some(AgentResult(w))
                 /\ flows' = flows \ {w}
                 /\ network' = network \ {f}
                 /\ calls' = Settled(f, o)
                 /\ UNCHANGED <<prompt, agentName, apiKey, error>>

Next ==
    \/ \E v \in PromptValues : SetPrompt(v)
    \/ \E v \in AgentNameValues : SetAgentName(v)
    \/ \E v \in ApiKeyValues : SetApiKey(v)
    \/ HandleSubmit
    \/ \E f \in network : \E r \in Responses(f.op, NextResource(f.op)) :
            ServerRespond(f, r)
    \/ \E w \in flows : ResumeAfterCreateAssistant(w)
    \/ \E w \in flows : ResumeAfterPurchasePhoneNumber(w)
    \/ \E w \in flows : ResumeAfterAssociatePhoneNumber(w)

Spec == Init /\ [][Next]_vars
---------------------------------------------------------------------------
\* Step status derivation.

\* const stepOrder, App.tsx:169.
stepOrder == <<"creating-assistant", "purchasing-number", "associating", "complete">>

\* Array.prototype.indexOf, zero-based, -1 when absent.
indexOf(seq, x) ==
    IF \E i \in DOMAIN seq : seq[i] = x
    THEN (CHOOSE i \in DOMAIN seq :
            seq[i] = x /\ \A j \in DOMAIN seq : seq[j] = x => i <= j) - 1
    ELSE -1

getStepStatusOffByOne(current, targetStep) ==
    LET currentIndex == indexOf(stepOrder, current)
        targetIndex == indexOf(stepOrder, targetStep)
    IN  IF currentIndex = -1 THEN "pending"
        ELSE IF targetIndex <= currentIndex THEN "completed"
        ELSE IF targetIndex = currentIndex THEN "active"
        ELSE "pending"

\* getStepStatus, App.tsx:168-177, with the `step` it closes over as `current`.
getStepStatus(current, targetStep) ==
    LET currentIndex == indexOf(stepOrder, current)
        targetIndex == indexOf(stepOrder, targetStep)
    IN  IF currentIndex = -1 THEN "pending"
        ELSE IF targetIndex < currentIndex THEN "completed"
        ELSE IF targetIndex = currentIndex THEN "active"
        ELSE "pending"

---------------------------------------------------------------------------
\* Vocabulary of the properties.

\* A text that is empty after trimming: it holds nothing but whitespace.
Blank(s) == \A i \in 1..Len(s) : s[i] \in Whitespace

\* The calls of attempt `a`, in the order they were issued.
CallsOf(a) == SelectSeq(calls, LAMBDA c : c.attempt = a)

\* The operations of attempt `a`, in the order they were issued.
OpsOf(a) == [i \in DOMAIN CallsOf(a) |-> CallsOf(a)[i].op]

CallOrder == <<"create-assistant", "purchase-number", "associate-number">>

IsPrefix(s, t) == Len(s) <= Len(t) /\ \A i \in 1..Len(s) : s[i] = t[i]

AttemptIds == 1..NumAttempts

\* The last call issued, when there is one.
LastCall == calls[Len(calls)]
---------------------------------------------------------------------------
\* Properties.

\* C1: a submit whose description or credential is empty after trimming, in
\* idle or in error, issues no remote call and leaves the WorkflowState as it
\* was.
C1_InvalidSubmitIssuesNothing ==
    [][(HandleSubmit /\ (Blank(prompt) \/ Blank(apiKey)))
        => (step' = step /\ network' = network /\ calls' = calls /\ flows' = flows)]_vars

\* C1 witness: an invalid submit made in the error state has been handled.
C1_Witness ==
    /\ step = "error"
    /\ Blank(prompt) \/ Blank(apiKey)
    /\ error = Some(RequiredFieldsMessage)

\* C2: within every attempt the calls are issued in the order create-assistant,
\* purchase-number, associate-number, each only after the previous one of the
\* same attempt has returned, and associate-number is given the phoneNumberId
\* and the assistantId that this attempt's calls returned.
C2_CallsInStrictOrder ==
    \A a \in AttemptIds :
        LET cs == CallsOf(a)
        IN  /\ IsPrefix(OpsOf(a), CallOrder)
            /\ \A i \in 2..Len(cs) :
                    cs[i - 1].http = "2xx" /\ cs[i - 1].outcome = "returned"
            /\ Len(cs) = 3 =>
                    /\ cs[3].pathId = cs[2].id
                    /\ cs[3].assistantId = cs[1].id

\* C2 witness: the second attempt has issued associate-number with the
\* identifiers its own two calls returned.
C2_Witness ==
    \E i \in DOMAIN calls :
        /\ calls[i].op = "associate-number"
        /\ calls[i].attempt = 2
        /\ calls[i].pathId = Id("phone", 2)
        /\ calls[i].assistantId = Id("assistant", 2)

\* C3: when a step's remote call fails the attempt ends there: the failed call
\* is the last call of its attempt (nothing later, no retry, no compensating
\* call), the state is error and there is no ProvisioningResult, also when
\* create-assistant and purchase-number had succeeded.
C3_FailureAborts ==
    /\ \A a \in AttemptIds :
            LET cs == CallsOf(a)
            IN  /\ IsPrefix(OpsOf(a), CallOrder)
                /\ \A i \in DOMAIN cs :
                      /\ cs[i].http = "failed" /\ cs[i].outcome # "pending"
                            => cs[i].outcome = "threw"
                      /\ cs[i].http = "failed" \/ cs[i].outcome = "threw"
                            => i = Len(cs)
    /\ calls # <<>> /\ LastCall.outcome = "threw" =>
            /\ step = "error"
            /\ result = None
            /\ flows = {}
            /\ network = {}

\* C3 witness: associate-number failed after the attempt's assistant and
\* phone number had been created.
C3_Witness ==
    /\ calls # <<>>
    /\ LastCall.op = "associate-number"
    /\ LastCall.outcome = "threw"
    /\ \E i, j \in DOMAIN calls :
            /\ calls[i].attempt = LastCall.attempt
            /\ calls[j].attempt = LastCall.attempt
            /\ calls[i].op = "create-assistant" /\ calls[i].http = "2xx"
            /\ calls[j].op = "purchase-number" /\ calls[j].http = "2xx"
    /\ step = "error"
\* C4: when all three calls of an attempt have returned, the state is complete
\* and the ProvisioningResult holds the assistantId create-assistant returned,
\* the phoneNumberId and phoneNumber purchase-number returned, and the display
\* name, or the generic fallback when the display name is empty.
C4_SuccessYieldsResult ==
    calls # <<>> /\ LastCall.op = "associate-number" /\ LastCall.outcome = "returned"
    => LET cs == CallsOf(LastCall.attempt)
       IN  /\ step = "complete"
           /\ cs[1].outcome = "returned" /\ cs[2].outcome = "returned"
           /\ result = Some([assistantId |-> cs[1].id,
                             phoneNumberId |-> cs[2].id,
                             phoneNumber |-> cs[2].number,
                             agentName |-> IF agentName = <<>>
                                           THEN <<"VAPI Agent">>
                                           ELSE agentName])

\* C4 witness: the second attempt succeeded without a display name.
C4_Witness ==
    /\ step = "complete"
    /\ agentName = <<>>
    /\ result = Some([assistantId |-> Id("assistant", 2),
                      phoneNumberId |-> Id("phone", 1),
                      phoneNumber |-> Id("number", 1),
                      agentName |-> <<"VAPI Agent">>])

\* C5: the ProvisioningResult is present exactly when the state is complete,
\* and it is present only once associate-number has succeeded.
C5_ResultIffComplete ==
    /\ result # None <=> step = "complete"
    /\ result # None =>
            /\ calls # <<>>
            /\ LastCall.op = "associate-number"
            /\ LastCall.http = "2xx"
            /\ LastCall.outcome = "returned"

\* C5 witness: a completed attempt with its result present.
C5_Witness ==
    /\ step = "complete"
    /\ result # None
    /\ error = None
    /\ LastCall.http = "2xx"

\* C6 as stated: the ErrorMessage is set exactly when the state is error.
C6_ErrorSetIffErrorState == error # None <=> step = "error"

\* C6 as amended: the ErrorMessage is always set in error and never set in an
\* in-progress state or in complete; in idle it is absent or holds the
\* required-fields text of a failed validation.
C6_ErrorSetInErrorOrAfterValidation ==
    /\ step = "error" => error # None
    /\ step \in InProgress \cup {"complete"} => error = None
    /\ step = "idle" => error \in {None, Some(RequiredFieldsMessage)}

\* C6 witness: an invalid submit from idle has set the ErrorMessage.
C6_Witness ==
    /\ step = "idle"
    /\ error = Some(RequiredFieldsMessage)

AllowedTransitions ==
    {<<"idle", "creating-assistant">>,
     <<"creating-assistant", "purchasing-number">>,
     <<"purchasing-number", "associating">>,
     <<"associating", "complete">>,
     <<"creating-assistant", "error">>,
     <<"purchasing-number", "error">>,
     <<"associating", "error">>,
     <<"error", "creating-assistant">>}

\* C7: every change of the WorkflowState is one step forward, a move from an
\* in-progress state to error, or a restart from error at creating_assistant.
C7_OnlyAllowedTransitions ==
    [][step' # step => <<step, step'>> \in AllowedTransitions]_vars

\* C7 witness: a second attempt has restarted from error at create-assistant.
C7_Witness ==
    /\ step = "creating-assistant"
    /\ NumAttempts = 2
    /\ \E f \in network : f.attempt = 2 /\ f.op = "create-assistant"

\* C8: at most one remote call is in flight and at most one submit flow is
\* running, and a flow starts only while the state is idle or error with no
\* other flow running.
C8_OneFlowAtATime ==
    /\ [](/\ Cardinality(network) <= 1
          /\ Cardinality(flows) <= 1
          /\ flows # {} \/ network # {} => step \in InProgress
          /\ step \in InProgress => Cardinality(flows) = 1)
    /\ [][NumAttempts' > NumAttempts
            => /\ step \in {"idle", "error"}
               /\ flows = {}
               /\ network = {}]_vars

\* C8 witness: the second flow awaits purchase-number, alone.
C8_Witness ==
    /\ \E f \in network :
            f.attempt = 2 /\ f.op = "purchase-number" /\ f.resp = Pending
    /\ Cardinality(flows) = 1

\* The place of each state in the ordered step list.
Rank ==
    "creating-assistant" :> 1 @@ "purchasing-number" :> 2
        @@ "associating" :> 3 @@ "complete" :> 4

\* C9: a queried step of the ordered list is completed when it comes before
\* the current state, active when it is the current state, pending when it
\* comes after; in idle and in error every queried step is pending.
C9_StepStatus ==
    \A t \in DOMAIN Rank :
        getStepStatus(step, t) =
            IF step \in {"idle", "error"} THEN "pending"
            ELSE IF Rank[t] < Rank[step] THEN "completed"
            ELSE IF Rank[t] = Rank[step] THEN "active"
            ELSE "pending"

\* C9 witness: in associating the two earlier steps are completed, the third
\* is active and complete is pending.
C9_Witness ==
    /\ step = "associating"
    /\ getStepStatus(step, "creating-assistant") = "completed"
    /\ getStepStatus(step, "purchasing-number") = "completed"
    /\ getStepStatus(step, "associating") = "active"
    /\ getStepStatus(step, "complete") = "pending"

\* The handler resumes on the answered call `f` in this step, and the answer
\* is a non-2xx response.
ConsumesHttpError(f) ==
    /\ f.resp.kind = "http"
    /\ f.resp.status \notin 200..299
    /\ f \notin network'

\* The text holds the numeric status code.
HoldsStatus(text, status) == \E i \in DOMAIN text : text[i] = ToString(status)

\* C10 as stated: a non-2xx response whose body parses and contains a message
\* yields that message as the ErrorMessage; one whose body cannot be parsed
\* yields an ErrorMessage holding the status code.
C10_ServerMessageOrStatus ==
    [][\A f \in network : ConsumesHttpError(f) =>
        /\ f.resp.body.parse = "object" /\ f.resp.body.message # None
                => error' = f.resp.body.message
        /\ f.resp.body.parse = "bad"
                => error' # None /\ HoldsStatus(Get(error'), f.resp.status)]_vars

\* C10 as amended: a non-2xx response whose body parses and contains a
\* non-empty message yields that message as the ErrorMessage; one whose body
\* cannot be parsed, or whose message is empty, yields an ErrorMessage holding
\* the status code.
C10_NonEmptyServerMessageOrStatus ==
    [][\A f \in network : ConsumesHttpError(f) =>
        /\ step' = "error"
        /\ (f.resp.body.parse = "object"
                /\ f.resp.body.message \notin {None, Some(<<>>)})
                => error' = f.resp.body.message
        /\ (f.resp.body.parse = "bad"
                \/ (f.resp.body.parse = "object"
                        /\ f.resp.body.message = Some(<<>>)))
                => error' # None /\ HoldsStatus(Get(error'), f.resp.status)]_vars

\* C10 witness: associate-number was refused with a server message, which is
\* now the ErrorMessage.
C10_Witness ==
    /\ step = "error"
    /\ calls # <<>>
    /\ LastCall.op = "associate-number"
    /\ LastCall.http = "failed"
    /\ error \in {Some(m) : m \in ServerMessages}
\* The handler resumes on the settled call `f` in this step.
Consumes(f) == f.resp.kind # "pending" /\ f \notin network'

\* The fetch of `f` failed with no response.
NetworkFailure(f) == f.resp.kind = "rejected"

\* The call of `f` was answered 2xx with a body that is not JSON, and the
\* calling function reads the body.
MalformedSuccess(f) ==
    /\ f.resp.kind = "http"
    /\ f.resp.status \in 200..299
    /\ f.resp.body.parse = "bad"
    /\ f.op \in {"create-assistant", "purchase-number"}

\* C11 as stated: a step that fails with a network-level failure or with a
\* success body that does not parse leaves the state error and the generic
\* "unexpected error" text as the ErrorMessage.
C11_NonHttpFailureGeneric ==
    [][\A f \in network :
        Consumes(f) /\ (NetworkFailure(f) \/ MalformedSuccess(f))
            => step' = "error" /\ error' = Some(UnexpectedErrorMessage)]_vars

\* C11 as amended: such a step leaves the state error and, as the
\* ErrorMessage, the message of the error the runtime threw (the fetch
\* failure's or the JSON parser's), which is neither the generic text, nor a
\* server message, nor a status-derived message.
C11_NonHttpFailureRuntimeMessage ==
    [][\A f \in network :
        /\ Consumes(f) /\ NetworkFailure(f)
                => step' = "error" /\ error' = Some(FetchFailed)
        /\ Consumes(f) /\ MalformedSuccess(f)
                => step' = "error" /\ error' = Some(JsonSyntaxError)
        /\ Consumes(f) /\ (NetworkFailure(f) \/ MalformedSuccess(f))
                => /\ error' # Some(UnexpectedErrorMessage)
                   /\ error' \notin {Some(m) : m \in ServerMessages}
                   /\ \A s \in FailureStatuses \cup SuccessStatuses :
                            ~HoldsStatus(Get(error'), s)]_vars

\* C11 witness: purchase-number's fetch failed with no response and the
\* runtime's message is the ErrorMessage.
C11_Witness ==
    /\ step = "error"
    /\ error = Some(FetchFailed)
    /\ LastCall.op = "purchase-number"
    /\ LastCall.http = "failed"
\* The calls of operation `op` that returned.
Returned(op) ==
    {i \in DOMAIN calls : calls[i].op = op /\ calls[i].outcome = "returned"}

\* C12: a retry is a fresh run: every attempt begins with its own
\* create-assistant call, so the attempts that got past step 1 are as many as
\* the create-assistant calls that succeeded, and no call of an attempt is
\* given an identifier another attempt obtained: what a failed attempt
\* created stays behind, unused, beside what the next attempt creates.
C12_RetryIsAFreshRun ==
    /\ \A a \in AttemptIds :
            /\ CallsOf(a)[1].op = "create-assistant"
            /\ CallsOf(a)[1].assistantId = Undefined
            /\ CallsOf(a)[1].pathId = Undefined
    /\ Cardinality({i \in DOMAIN calls : calls[i].op = "create-assistant"})
            = NumAttempts
    /\ Cardinality({a \in AttemptIds : Len(CallsOf(a)) >= 2})
            = Cardinality(Returned("create-assistant"))
    /\ \A i, j \in DOMAIN calls :
            calls[i].attempt # calls[j].attempt /\ calls[j].id # Undefined
                => calls[i].assistantId # calls[j].id /\ calls[i].pathId # calls[j].id

\* C12 witness: the first attempt failed after its assistant and number were
\* created, and the second attempt has created a second assistant.
C12_Witness ==
    /\ NumAttempts = 2
    /\ Len(CallsOf(1)) = 3
    /\ CallsOf(1)[3].outcome = "threw"
    /\ CallsOf(1)[1].id = Id("assistant", 1)
    /\ CallsOf(1)[2].id = Id("phone", 1)
    /\ Len(CallsOf(2)) >= 2
    /\ CallsOf(2)[1].id = Id("assistant", 2)

\* C13: in every in-progress state the ErrorMessage and the ProvisioningResult
\* are absent, also when the attempt was submitted from the error state.
C13_InProgressHasNoErrorNoResult ==
    step \in InProgress => error = None /\ result = None

\* C13 witness: a resubmission from error is at step 1 with the earlier
\* attempt's error cleared.
C13_Witness ==
    /\ step = "creating-assistant"
    /\ NumAttempts = 2
    /\ CallsOf(1)[Len(CallsOf(1))].outcome = "threw"
    /\ error = None
    /\ result = None
\* The create-assistant requests in flight.
CreateRequests == {f.request : f \in {g \in network : g.op = "create-assistant"}}

\* The text holds the token.
Mentions(text, token) == \E i \in DOMAIN text : text[i] = token

\* C14 as stated: without a display name the result's agentName is the generic
\* fallback and the name and the greeting sent to create-assistant show that
\* same fallback; with a display name the result and the request carry it.
C14_SameFallbackEverywhere ==
    /\ \A r \in CreateRequests :
            IF agentName = <<>>
            THEN r.name = <<"VAPI Agent">> /\ Mentions(r.firstMessage, "VAPI Agent")
            ELSE r.name = agentName /\ Mentions(r.firstMessage, agentName[1])
    /\ step = "complete" =>
            Get(result).agentName =
                IF agentName = <<>> THEN <<"VAPI Agent">> ELSE agentName

\* C14 as amended: without a display name the result's agentName and the name
\* sent to create-assistant are the generic fallback "VAPI Agent", while the
\* greeting uses a fallback of its own, "your AI assistant"; with a display
\* name the result, the name and the greeting all carry it.
C14_NameFallbackAndGreetingFallback ==
    /\ \A r \in CreateRequests :
            IF agentName = <<>>
            THEN /\ r.name = <<"VAPI Agent">>
                 /\ r.firstMessage =
                        <<"Hello! I'm ", "your AI assistant",
                          ". How can I help you today?">>
            ELSE /\ r.name = agentName
                 /\ r.firstMessage =
                        <<"Hello! I'm ">> \o agentName
                            \o <<". How can I help you today?">>
    /\ step = "complete" =>
            Get(result).agentName =
                IF agentName = <<>> THEN <<"VAPI Agent">> ELSE agentName

\* C14 witness: create-assistant is in flight for a submit without a display
\* name, carrying the fallback name and the greeting's own fallback.
C14_Witness ==
    /\ agentName = <<>>
    /\ \E r \in CreateRequests :
            /\ r.name = <<"VAPI Agent">>
            /\ Mentions(r.firstMessage, "your AI assistant")
\* The state each operation's call is issued under.
StepOfCall ==
    "create-assistant" :> "creating-assistant"
        @@ "purchase-number" :> "purchasing-number"
        @@ "associate-number" :> "associating"

\* C15: while a remote call is in flight the state is the state of that call's
\* step: creating_assistant for create-assistant, purchasing_number for
\* purchase-number, associating for associate-number, never a later one.
C15_StateOfTheCallInFlight ==
    \A f \in network : step = StepOfCall[f.op]

\* C15 witness: associate-number is pending and the state is associating.
C15_Witness ==
    /\ step = "associating"
    /\ \E f \in network : f.op = "associate-number" /\ f.resp = Pending

\* The display name of the form, or the fallback when it is empty.
DisplayNameOr(fallback) == IF agentName = <<>> THEN fallback ELSE agentName

\* C16: while an attempt is in progress the description, the display name and
\* the credential do not change; every call in flight carries the credential
\* of the form and the running flow holds the form's values, and the agent
\* name of the result comes from the display name the requests were built
\* from.
C16_RequestIsASnapshot ==
    /\ [](/\ \A f \in network :
                /\ f.auth = <<"Bearer ">> \o apiKey
                /\ f.op = "create-assistant" =>
                        f.request.name = DisplayNameOr(<<"VAPI Agent">>)
                /\ f.op = "purchase-number" =>
                        f.request.name = DisplayNameOr(<<"VAPI Agent Number">>)
          /\ \A w \in flows :
                /\ w.c.prompt = prompt
                /\ w.c.agentName = agentName
                /\ w.c.apiKey = apiKey
          /\ step = "complete" =>
                Get(result).agentName = DisplayNameOr(<<"VAPI Agent">>))
    /\ [][(step \in InProgress)
            => (prompt' = prompt /\ agentName' = agentName /\ apiKey' = apiKey)]_vars

\* C16 witness: the third call of an attempt with a display name is in flight
\* with the form's credential.
C16_Witness ==
    /\ agentName = <<"Coffee Bot">>
    /\ \E f \in network :
            /\ f.op = "associate-number"
            /\ f.auth = <<"Bearer ", "sk_test_123">>
    /\ \E w \in flows : w.c.agentName = <<"Coffee Bot">>
\* C17: complete is terminal: from complete no step changes the state, the
\* ProvisioningResult or the ErrorMessage, and none issues a remote call; in
\* complete the ErrorMessage is absent and nothing is in flight, and a result
\* once set keeps its value.
C17_CompleteIsTerminal ==
    /\ [](step = "complete" =>
            error = None /\ result # None /\ network = {} /\ flows = {})
    /\ [][(step = "complete" \/ result # None)
            => /\ step' = "complete"
               /\ result' = result
               /\ error' = None
               /\ calls' = calls
               /\ network' = network]_vars

\* C17 witness: the first attempt completed, with a display name.
C17_Witness ==
    /\ step = "complete"
    /\ NumAttempts = 1
    /\ agentName = <<"Coffee Bot">>
    /\ Get(result).agentName = <<"Coffee Bot">>
    /\ network = {}

\* The workflow under the assumption of C18: every issued call is eventually
\* answered (or fails), and the event loop resumes a handler whose awaited
\* call has settled.
FairSpec ==
    /\ Spec
    /\ WF_vars(\E f \in network : \E r \in Responses(f.op, NextResource(f.op)) :
                    ServerRespond(f, r))
    /\ WF_vars(\E w \in flows : ResumeAfterCreateAssistant(w))
    /\ WF_vars(\E w \in flows : ResumeAfterPurchasePhoneNumber(w))
    /\ WF_vars(\E w \in flows : ResumeAfterAssociatePhoneNumber(w))

\* C18: when every issued call is eventually answered, an attempt in progress
\* eventually ends in complete or in error; and while an issued call has not
\* been answered no step changes the state.
C18_EndsOrWaits ==
    /\ (step \in InProgress) ~> (step \in {"complete", "error"})
    /\ [][(\E f \in network : f.resp = Pending) => step' = step]_vars

\* C18 witness: the second attempt ended in complete after its third call was
\* answered.
C18_Witness ==
    /\ step = "complete"
    /\ NumAttempts = 2
    /\ LastCall.op = "associate-number"
    /\ LastCall.http = "2xx"
    /\ network = {}
\* C19: a submit that fails validation sets the ErrorMessage to the
\* required-fields text and changes nothing else: the state, the result, the
\* form, the flows and the calls stay as they were, from idle and from error
\* alike.
C19_FailedValidationOnlySetsError ==
    [][(HandleSubmit /\ (Blank(prompt) \/ Blank(apiKey)))
        => /\ error' = Some(RequiredFieldsMessage)
           /\ step' = step
           /\ result' = result
           /\ result = None
           /\ prompt' = prompt /\ agentName' = agentName /\ apiKey' = apiKey
           /\ flows' = flows /\ network' = network /\ calls' = calls]_vars

\* C19 witness: after an attempt failed with a server message, an invalid
\* submit replaced that message while the state stayed error.
C19_Witness ==
    /\ step = "error"
    /\ calls # <<>>
    /\ LastCall.outcome = "threw"
    /\ error = Some(RequiredFieldsMessage)
    /\ result = None

\* C20: in complete the result's assistantId, phoneNumberId and phoneNumber
\* are defined, and associate-number is never called with an undefined
\* identifier: a 2xx answer lacking a field does not let the workflow go on.
C20_IdentifiersDefined ==
    /\ step = "complete" =>
            /\ Get(result).assistantId # Undefined
            /\ Get(result).phoneNumberId # Undefined
            /\ Get(result).phoneNumber # Undefined
    /\ \A i \in DOMAIN calls :
            calls[i].op = "associate-number" =>
                calls[i].pathId # Undefined /\ calls[i].assistantId # Undefined

====
